---- MODULE Spec2Model ----
(***************************************************************************)
(* Model of NaiveBayesClassifier (naive_bayes/naive_bayes_classifier.py).  *)
(*                                                                         *)
(* The classifier instance is the record `self`; each public method is one *)
(* action.  Numbers are exact rationals <<n, d>> in lowest terms; d = 0    *)
(* encodes the IEEE infinities (<<1,0>> = +inf, <<-1,0>> = -inf).  The     *)
(* rounding of the mantissa of a double is not modelled, its range is: a   *)
(* product repeated LongRun times leaves the range of a double (underflow  *)
(* to 0.0, overflow to inf).  Python raises ZeroDivisionError on a         *)
(* division by zero, np.log(0) returns -inf.                               *)
(***************************************************************************)
EXTENDS Integers, Sequences, FiniteSets, TLC

\* ------------------------------------------------------------------ bounds
MaxDocs     == 2      \* emails in one train batch
MaxDocLen   == 1      \* word tokens in one training email
MaxTrains   == 2      \* train calls in one behaviour
MaxPredDocs == 1      \* emails in one predict call
MaxPredLen  == 2      \* word tokens in one short email given to predict
MaxLabels   == 3      \* labels in one accuracy call
LongRun     == 100000 \* occurrences of the word in "an email with a lot of words"

Words  == {"a", "b"}
Labels == {"spam", "ham"}
TrainLabels == Labels \cup {"eggs"}   \* a label that is neither

VARIABLES self,    \* the classifier instance (its ten fields)
          op,      \* the method that has just run: "train", "predict", "accuracy", or "idle"
          status,  \* how that call ended: "ok" or "ZeroDivisionError"
          args,    \* the arguments of that call
          ret,     \* what it returned (<<>> for None)
          trains,  \* number of train calls so far
          fit      \* status and smoothing flag of the most recent train call

vars == <<self, op, status, args, ret, trains, fit>>

\* ------------------------------------------------------- exact arithmetic
Abs(i) == IF i < 0 THEN -i ELSE i

RECURSIVE GCD(_, _)
GCD(a, b) == IF b = 0 THEN a ELSE GCD(b, a % b)

\* the rational n/d (d > 0) in lowest terms
Norm(n, d) == LET g == GCD(Abs(n), d) IN <<n \div g, d \div g>>

Zero   == <<0, 1>>
One    == <<1, 1>>
PosInf == <<1, 0>>
NegInf == <<-1, 0>>

IsFinite(x) == x[2] # 0

\* Python `a / b` on two ints, b # 0
Div(a, b) == Norm(a, b)

\* Python `x * y` on two floats of which at most one is infinite and none is 0 * inf
Mul(x, y) ==
    IF IsFinite(x) /\ IsFinite(y) THEN Norm(x[1] * y[1], x[2] * y[2])
    ELSE IF x[1] * y[1] > 0 THEN PosInf ELSE NegInf

\* Python `x > y` on floats (no NaN arises in the model)
Gt(x, y) == x[1] * y[2] > y[1] * x[2]

Geq(x, y) == x[1] * y[2] >= y[1] * x[2]

\* ------------------------------------------------------- defaultdict
\* d[w] read without inserting: the value or the default
Get(d, w, default) == IF w \in DOMAIN d THEN d[w] ELSE default

\* the dict after `d[w]` was evaluated: a missing key is inserted with the default
Touch(d, w, default) ==
    IF w \in DOMAIN d THEN d ELSE [x \in DOMAIN d \cup {w} |-> IF x = w THEN default ELSE d[x]]

\* the dict after `d[w] = v`
Put(d, w, v) == [x \in DOMAIN d \cup {w} |-> IF x = w THEN v ELSE d[x]]

EmptyDict == [x \in {} |-> 0]

\* ------------------------------------------------------- __init__
InitSelf ==
    [spam_word_count   |-> EmptyDict,
     ham_word_count    |-> EmptyDict,
     spam_email_count  |-> 0,
     ham_email_count   |-> 0,
     total_emails      |-> 0,
     p_spam            |-> Zero,
     p_ham             |-> Zero,
     p_word_given_spam |-> EmptyDict,
     p_word_given_ham  |-> EmptyDict,
     words             |-> {}]

\* ------------------------------------------------------- train
RECURSIVE CountLabel(_, _)
\* sum(1 for label in labels if label == l)
CountLabel(labels, l) ==
    IF labels = <<>> THEN 0
    ELSE (IF Head(labels) = l THEN 1 ELSE 0) + CountLabel(Tail(labels), l)

\* lines 69-71
TrainCounts(s, emails, labels) ==
    [s EXCEPT !.total_emails     = Len(emails),
              !.spam_email_count = CountLabel(labels, "spam"),
              !.ham_email_count  = CountLabel(labels, "ham")]

\* TrainPriors with the ham prior computed from the spam count
TrainPriorsSwapped(s) ==
    [s EXCEPT !.p_spam = Div(s.spam_email_count, s.total_emails),
              !.p_ham  = Div(s.spam_email_count, s.total_emails)]

\* lines 74-75, total_emails # 0
TrainPriors(s) ==
    [s EXCEPT !.p_spam = Div(s.spam_email_count, s.total_emails),
              !.p_ham  = Div(s.ham_email_count, s.total_emails)]

RECURSIVE AddWords(_, _)
\* for word in email: count[word] += 1
AddWords(count, email) ==
    IF email = <<>> THEN count
    ELSE AddWords(Put(count, Head(email), Get(count, Head(email), 0) + 1), Tail(email))

RECURSIVE CountWords(_, _, _)
\* lines 78-84
CountWords(s, emails, labels) ==
    IF emails = <<>> \/ labels = <<>> THEN s
    ELSE LET s1 == IF Head(labels) = "spam"
                   THEN [s EXCEPT !.spam_word_count = AddWords(@, Head(emails))]
                   ELSE IF Head(labels) = "ham"
                   THEN [s EXCEPT !.ham_word_count = AddWords(@, Head(emails))]
                   ELSE s
         IN CountWords(s1, Tail(emails), Tail(labels))

\* line 88
BuildWords(s) ==
    [s EXCEPT !.words = DOMAIN s.spam_word_count \cup DOMAIN s.ham_word_count]

\* lines 94-95 for one word
SmoothedWord(s, w) ==
    LET s1 == [s EXCEPT !.spam_word_count = Touch(@, w, 0)]
        s2 == [s1 EXCEPT !.p_word_given_spam =
                   Put(@, w, Div(s1.spam_word_count[w] + 1, s1.spam_email_count + 2))]
        s3 == [s2 EXCEPT !.ham_word_count = Touch(@, w, 0)]
    IN [s3 EXCEPT !.p_word_given_ham =
                   Put(@, w, Div(s3.ham_word_count[w] + 1, s3.ham_email_count + 2))]

\* line 98 for one word, spam_email_count # 0
PlainSpamWord(s, w) ==
    LET s1 == [s EXCEPT !.spam_word_count = Touch(@, w, 0)]
    IN [s1 EXCEPT !.p_word_given_spam =
                   Put(@, w, Div(s1.spam_word_count[w], s1.spam_email_count))]

\* line 99 for one word, ham_email_count # 0
PlainHamWord(s, w) ==
    LET s1 == [s EXCEPT !.ham_word_count = Touch(@, w, 0)]
    IN [s1 EXCEPT !.p_word_given_ham =
                   Put(@, w, Div(s1.ham_word_count[w], s1.ham_email_count))]

RECURSIVE ForWords(_, _, _)
\* the loops of lines 93-95 and 97-99 when no division fails; the order in
\* which the set is iterated does not change the result
ForWords(s, todo, smoothing) ==
    IF todo = {} THEN s
    ELSE LET w == CHOOSE x \in todo : TRUE
         IN ForWords(IF smoothing THEN SmoothedWord(s, w)
                     ELSE PlainHamWord(PlainSpamWord(s, w), w),
                     todo \ {w}, smoothing)

Ok(s)     == [self |-> s, status |-> "ok"]
Raised(s) == [self |-> s, status |-> "ZeroDivisionError"]

\* CondProbs with the smoothed branch dividing by the bare class counts
CondProbsUnshifted(s, smoothing) ==
    IF s.words = {} \/ (s.spam_email_count # 0 /\ s.ham_email_count # 0)
    THEN {Ok(ForWords(s, s.words, smoothing))}
    ELSE IF s.spam_email_count = 0
    THEN {Raised([s EXCEPT !.spam_word_count = Touch(@, w, 0)]) : w \in s.words}
    ELSE {Raised([PlainSpamWord(s, w) EXCEPT !.ham_word_count = Touch(@, w, 0)]) : w \in s.words}

\* lines 92-99: the outcomes of the last loop.  Without smoothing the first
\* word the set iteration yields meets the division by a zero class count;
\* which word is first depends on the hash order of the set.
CondProbs(s, smoothing) ==
    IF smoothing \/ s.words = {} \/ (s.spam_email_count # 0 /\ s.ham_email_count # 0)
    THEN {Ok(ForWords(s, s.words, smoothing))}
    ELSE IF s.spam_email_count = 0
    THEN {Raised([s EXCEPT !.spam_word_count = Touch(@, w, 0)]) : w \in s.words}
    ELSE {Raised([PlainSpamWord(s, w) EXCEPT !.ham_word_count = Touch(@, w, 0)]) : w \in s.words}

\* lines 69-99: the set of outcomes of train(emails, labels, laplace_smoothing)
TrainOutcomes(s, emails, labels, smoothing) ==
    LET s1 == TrainCounts(s, emails, labels)
    IN IF s1.total_emails = 0 THEN {Raised(s1)}
       ELSE CondProbs(BuildWords(CountWords(TrainPriors(s1), emails, labels)), smoothing)

\* ------------------------------------------------------- predict
\* An email given to predict is a sequence of chunks <<word, times>>: the
\* word occurs `times` consecutive times, times = 1 or times = LongRun.

\* `v *= p` executed `times` times on floats (lines 141-142).  For LongRun
\* repetitions the product leaves the range of a double: with 0 < p <= 1/2 it
\* reaches 0.0 (underflow), with p > 1 it reaches inf (overflow).
Times(v, p, times) ==
    IF times = 1 THEN Mul(v, p)
    ELSE IF v = Zero \/ p = Zero THEN Zero
    ELSE IF p = One THEN v
    ELSE IF Gt(One, p) THEN Zero
    ELSE PosInf

\* A sum of logarithms ln(e) + LongRun * ln(r), or -inf
LogNegInf == [ninf |-> TRUE, e |-> One, r |-> One]

\* np.log(x), x >= 0: np.log(0) is -inf (with a RuntimeWarning, no exception)
LogOf(x) == IF x = Zero THEN LogNegInf ELSE [ninf |-> FALSE, e |-> x, r |-> One]

\* `v += np.log(p)` executed `times` times (lines 123-124)
LogTimes(v, p, times) ==
    IF v.ninf \/ LogOf(p).ninf THEN LogNegInf
    ELSE IF times = 1 THEN [v EXCEPT !.e = Mul(@, p)]
    ELSE [v EXCEPT !.r = Mul(@, p)]

\* LogGt with >= in place of >
LogGeq(x, y) ==
    IF x.ninf THEN FALSE
    ELSE IF y.ninf THEN TRUE
    ELSE IF x.r = y.r THEN Geq(x.e, y.e)
    ELSE Gt(x.r, y.r)

\* `x > y` on two sums of logarithms (lines 126): -inf > y is false, and
\* LongRun * (ln x.r - ln y.r) outweighs ln x.e - ln y.e when x.r # y.r
LogGt(x, y) ==
    IF x.ninf THEN FALSE
    ELSE IF y.ninf THEN TRUE
    ELSE IF x.r = y.r THEN Gt(x.e, y.e)
    ELSE Gt(x.r, y.r)

\* lines 122-124 / 140-142: the lookups self.p_word_given_*[word] of a
\* defaultdict(float) insert the key with 0.0 when it is missing
Lookup(s, w) ==
    [s EXCEPT !.p_word_given_spam = Touch(@, w, Zero),
              !.p_word_given_ham  = Touch(@, w, Zero)]

RECURSIVE DirectLoopUnguarded(_, _, _, _)
\* DirectLoop without the test `word in self.words`
DirectLoopUnguarded(s, email, spam, ham) ==
    IF email = <<>> THEN [self |-> s, spam |-> spam, ham |-> ham]
    ELSE LET w  == Head(email)[1]
             k  == Head(email)[2]
             s1 == Lookup(s, w)
         IN DirectLoopUnguarded(s1, Tail(email),
                                Times(spam, s1.p_word_given_spam[w], k),
                                Times(ham, s1.p_word_given_ham[w], k))

RECURSIVE DirectLoop(_, _, _, _)
\* lines 137-142: [self, spam, ham] after the loop over the words of the email
DirectLoop(s, email, spam, ham) ==
    IF email = <<>> THEN [self |-> s, spam |-> spam, ham |-> ham]
    ELSE LET w == Head(email)[1]
             k == Head(email)[2]
         IN IF w \in s.words
            THEN LET s1 == Lookup(s, w)
                 IN DirectLoop(s1, Tail(email),
                               Times(spam, s1.p_word_given_spam[w], k),
                               Times(ham, s1.p_word_given_ham[w], k))
            ELSE DirectLoop(s, Tail(email), spam, ham)

RECURSIVE LogLoop(_, _, _, _)
\* lines 121-124
LogLoop(s, email, spam, ham) ==
    IF email = <<>> THEN [self |-> s, spam |-> spam, ham |-> ham]
    ELSE LET w == Head(email)[1]
             k == Head(email)[2]
         IN IF w \in s.words
            THEN LET s1 == Lookup(s, w)
                 IN LogLoop(s1, Tail(email),
                            LogTimes(spam, s1.p_word_given_spam[w], k),
                            LogTimes(ham, s1.p_word_given_ham[w], k))
            ELSE LogLoop(s, Tail(email), spam, ham)

\* lines 116-129 and 132-147 for one email: [self, label]
PredictEmail(s, email, prevent_underflow) ==
    IF prevent_underflow
    THEN LET r == LogLoop(s, email, LogOf(s.p_spam), LogOf(s.p_ham))
         IN [self |-> r.self, label |-> IF LogGt(r.spam, r.ham) THEN "spam" ELSE "ham"]
    ELSE LET r == DirectLoop(s, email, s.p_spam, s.p_ham)
         IN [self |-> r.self, label |-> IF Gt(r.spam, r.ham) THEN "spam" ELSE "ham"]

RECURSIVE PredictAll(_, _, _, _)
\* lines 114-149: [self, y_pred]
PredictAll(s, emails, prevent_underflow, y_pred) ==
    IF emails = <<>> THEN [self |-> s, y_pred |-> y_pred]
    ELSE LET r == PredictEmail(s, Head(emails), prevent_underflow)
         IN PredictAll(r.self, Tail(emails), prevent_underflow, Append(y_pred, r.label))

\* ------------------------------------------------------- accuracy
RECURSIVE CountDiffering(_, _)
\* CountCorrect with != in place of ==
CountDiffering(y_true, y_pred) ==
    IF y_true = <<>> \/ y_pred = <<>> THEN 0
    ELSE (IF Head(y_true) # Head(y_pred) THEN 1 ELSE 0)
         + CountDiffering(Tail(y_true), Tail(y_pred))

RECURSIVE CountCorrect(_, _)
\* lines 156-159: zip stops at the shorter sequence
CountCorrect(y_true, y_pred) ==
    IF y_true = <<>> \/ y_pred = <<>> THEN 0
    ELSE (IF Head(y_true) = Head(y_pred) THEN 1 ELSE 0)
         + CountCorrect(Tail(y_true), Tail(y_pred))

\* lines 156-161: [status, ret]
AccuracyResult(y_true, y_pred) ==
    IF Len(y_true) = 0 THEN [status |-> "ZeroDivisionError", ret |-> <<>>]
    ELSE [status |-> "ok", ret |-> Div(CountCorrect(y_true, y_pred), Len(y_true))]

\* ------------------------------------------------------- inputs
SeqsUpTo(S, n) == UNION {[1..k -> S] : k \in 0..n}

TrainEmails == SeqsUpTo(Words, MaxDocLen)

ShortEmails == SeqsUpTo({<<w, 1>> : w \in Words}, MaxPredLen)

LongEmails == {<< <<w, LongRun>> >> : w \in Words}

\* Times and LogGt are exact for LongRun repetitions of a factor p when p is
\* 0, 1, at most 1/2, or above 1 with a small denominator (for 1/2 < p < 1
\* the product of doubles stalls at a subnormal number instead of reaching 0)
RunFactor(p) ==
    \/ p = Zero
    \/ p = One
    \/ Geq(One, Mul(p, <<2, 1>>))
    \/ Gt(p, One) /\ p[2] * 2000 <= LongRun

\* ... and when two different factors differ by enough for LongRun
\* repetitions to outweigh the priors
RunPair(p, q) ==
    \/ p = q
    \/ p = Zero
    \/ q = Zero
    \/ p[1] * q[2] * 64 <= LongRun /\ q[1] * p[2] * 64 <= LongRun

RunEmailOK(s, email) ==
    \A i \in 1..Len(email) :
        (email[i][2] = LongRun /\ email[i][1] \in s.words) =>
            LET p == Get(s.p_word_given_spam, email[i][1], Zero)
                q == Get(s.p_word_given_ham, email[i][1], Zero)
            IN RunFactor(p) /\ RunFactor(q) /\ RunPair(p, q)

PredictEmails(s) == {e \in ShortEmails \cup LongEmails : RunEmailOK(s, e)}

LabelSeqs == SeqsUpTo(Labels, MaxLabels)

\* ------------------------------------------------------- actions
NoFit == [status |-> "none", laplace_smoothing |-> FALSE]

Init ==
    /\ self = InitSelf
    /\ op = "idle"
    /\ status = "ok"
    /\ args = <<>>
    /\ ret = <<>>
    /\ trains = 0
    /\ fit = NoFit

\* train(emails, labels, laplace_smoothing)
Train ==
    /\ op = "idle"
    /\ trains < MaxTrains
    /\ \E n \in 0..MaxDocs :
       \E emails \in [1..n -> TrainEmails], labels \in [1..n -> TrainLabels],
          smoothing \in BOOLEAN :
       \E r \in TrainOutcomes(self, emails, labels, smoothing) :
          /\ self' = r.self
          /\ status' = r.status
          /\ args' = [emails |-> emails, labels |-> labels, laplace_smoothing |-> smoothing]
          /\ fit' = [status |-> r.status, laplace_smoothing |-> smoothing]
    /\ op' = "train"
    /\ ret' = <<>>
    /\ trains' = trains + 1

\* predict(emails, prevent_underflow)
Predict ==
    /\ op = "idle"
    /\ \E n \in 0..MaxPredDocs :
       \E emails \in [1..n -> PredictEmails(self)], prevent_underflow \in BOOLEAN :
          LET r == PredictAll(self, emails, prevent_underflow, <<>>)
          IN /\ self' = r.self
             /\ ret' = r.y_pred
             /\ args' = [emails |-> emails, prevent_underflow |-> prevent_underflow]
    /\ op' = "predict"
    /\ status' = "ok"
    /\ UNCHANGED <<trains, fit>>

\* accuracy(y_true, y_pred)
Accuracy ==
    /\ op = "idle"
    /\ \E y_true \in LabelSeqs, y_pred \in LabelSeqs :
          LET r == AccuracyResult(y_true, y_pred)
          IN /\ status' = r.status
             /\ ret' = r.ret
             /\ args' = [y_true |-> y_true, y_pred |-> y_pred]
    /\ op' = "accuracy"
    /\ UNCHANGED <<self, trains, fit>>

\* the call is over: its arguments and its result are dropped by the caller
Return ==
    /\ op # "idle"
    /\ op' = "idle"
    /\ status' = "ok"
    /\ args' = <<>>
    /\ ret' = <<>>
    /\ UNCHANGED <<self, trains, fit>>

\* the calls on the classifier's model: train and predict
Next == Train \/ Predict \/ Return

Spec == Init /\ [][Next]_vars

\* accuracy alone: it uses no field of the instance
NextAccuracy == Accuracy \/ Return

SpecAccuracy == Init /\ [][NextAccuracy]_vars

\* every method, in any order
NextAll == Train \/ Predict \/ Accuracy \/ Return

SpecAll == Init /\ [][NextAll]_vars

\* ======================================================= properties
Add(x, y) == Norm(x[1] * y[2] + y[1] * x[2], x[2] * y[2])

\* x is the rational a/b
IsRatio(x, a, b) == IsFinite(x) /\ x[1] * b = a * x[2]

TrainReturned == op = "train" /\ status = "ok"

KnownLabels(labels) == \A i \in 1..Len(labels) : labels[i] \in Labels

NumLabel(labels, l) == Cardinality({i \in 1..Len(labels) : labels[i] = l})

\* the batch of the last train call alone, given to a new instance
FreshlyTrained ==
    {r.self : r \in TrainOutcomes(InitSelf, args.emails, args.labels, args.laplace_smoothing)}

\* C1: after a train call that returns normally the instance is in the state
\* a freshly constructed classifier has after that one call alone.
TrainOverwrites == TrainReturned => self \in FreshlyTrained

\* C2: after a train call that returns normally on labels in {"spam","ham"},
\* every conditional probability of a vocabulary word lies in [0,1], and
\* strictly in (0,1) when laplace_smoothing is true.
CondProbBounds ==
    (TrainReturned /\ KnownLabels(args.labels)) =>
        \A w \in self.words :
            \A d \in {self.p_word_given_spam, self.p_word_given_ham} :
                /\ w \in DOMAIN d
                /\ Geq(d[w], Zero) /\ Geq(One, d[w])
                /\ args.laplace_smoothing => (Gt(d[w], Zero) /\ Gt(One, d[w]))

\* C3: after a train call that returns normally on n emails with labels in
\* {"spam","ham"}, k of them spam: spam_email_count + ham_email_count =
\* total_emails = n, p_spam = k/n, p_ham = (n-k)/n and p_spam + p_ham = 1.
PriorCorrectness ==
    (TrainReturned /\ KnownLabels(args.labels)) =>
        LET n == Len(args.emails)
            k == NumLabel(args.labels, "spam")
        IN /\ self.spam_email_count + self.ham_email_count = self.total_emails
           /\ self.total_emails = n
           /\ self.spam_email_count = k
           /\ IsRatio(self.p_spam, k, n)
           /\ IsRatio(self.p_ham, n - k, n)
           /\ Add(self.p_spam, self.p_ham) = One

\* a batch with both classes was trained on
PriorWitness ==
    /\ TrainReturned /\ KnownLabels(args.labels)
    /\ Len(args.emails) = 2
    /\ NumLabel(args.labels, "spam") = 1
    /\ self.p_spam = <<1, 2>>

\* number of occurrences of the word in the email
RECURSIVE Occurrences(_, _)
Occurrences(email, w) ==
    IF email = <<>> THEN 0
    ELSE (IF Head(email)[1] = w THEN Head(email)[2] ELSE 0) + Occurrences(Tail(email), w)

RECURSIVE Power(_, _, _)
\* v combined k times with the factor p
Power(v, p, k) ==
    IF k = 0 THEN v
    ELSE IF k >= LongRun THEN Times(v, p, LongRun)
    ELSE Power(Mul(v, p), p, k - 1)

RECURSIVE LogPower(_, _, _)
LogPower(v, p, k) ==
    IF k = 0 THEN v
    ELSE IF k >= LongRun THEN LogTimes(v, p, LongRun)
    ELSE LogPower(LogTimes(v, p, 1), p, k - 1)

RECURSIVE Score(_, _, _, _)
\* the prior combined, for every word of the vocabulary, once per occurrence
\* of the word in the email with the word's conditional probability
Score(prior, cond, email, vocabulary) ==
    IF vocabulary = {} THEN prior
    ELSE LET w == CHOOSE x \in vocabulary : TRUE
         IN Score(Power(prior, Get(cond, w, Zero), Occurrences(email, w)),
                  cond, email, vocabulary \ {w})

RECURSIVE LogScore(_, _, _, _)
LogScore(prior, cond, email, vocabulary) ==
    IF vocabulary = {} THEN prior
    ELSE LET w == CHOOSE x \in vocabulary : TRUE
         IN LogScore(LogPower(prior, Get(cond, w, Zero), Occurrences(email, w)),
                     cond, email, vocabulary \ {w})

SpamScoreHigher(email, prevent_underflow) ==
    IF prevent_underflow
    THEN LogGt(LogScore(LogOf(self.p_spam), self.p_word_given_spam, email, self.words),
               LogScore(LogOf(self.p_ham), self.p_word_given_ham, email, self.words))
    ELSE Gt(Score(self.p_spam, self.p_word_given_spam, email, self.words),
            Score(self.p_ham, self.p_word_given_ham, email, self.words))

HasWord(email, S) == \E j \in 1..Len(email) : email[j][1] \in S

AccuracyFraction ==
    op = "accuracy" =>
        LET t == args.y_true
            p == args.y_pred
        IN /\ (Len(t) = Len(p) /\ Len(t) > 0) =>
                 /\ status = "ok"
                 /\ IsRatio(ret, Cardinality({i \in 1..Len(t) : t[i] = p[i]}), Len(t))
                 /\ Geq(ret, Zero) /\ Geq(One, ret)
                 /\ (t = p => ret = One)
           /\ (Len(t) = 0 /\ Len(p) = 0) => status = "ZeroDivisionError"

AccuracyWitness ==
    /\ op = "accuracy"
    /\ Len(args.y_true) = 2 /\ Len(args.y_pred) = 2
    /\ ret = <<1, 2>>

\* the most recent train call returned normally and no conditional
\* probability of a vocabulary word is 0
TrainedNoZero ==
    /\ fit.status = "ok"
    /\ \A w \in self.words :
          Get(self.p_word_given_spam, w, Zero) # Zero /\ Get(self.p_word_given_ham, w, Zero) # Zero

\* what predict returns for the same emails in the other mode
OtherMode == PredictAll(self, args.emails, ~args.prevent_underflow, <<>>).y_pred

\* C6 as stated: on a trained model with no zero conditional probability the
\* label of log mode equals the label of direct mode, for every email.
RankingEquivalence ==
    (op = "predict" /\ TrainedNoZero) => ret = OtherMode

\* neither product of direct mode leaves the range of a double on this email
InRange(email) ==
    \A j \in 1..Len(email) :
        (email[j][2] = LongRun /\ email[j][1] \in self.words) =>
            /\ self.p_spam = Zero \/ Get(self.p_word_given_spam, email[j][1], Zero) = One
            /\ self.p_ham = Zero \/ Get(self.p_word_given_ham, email[j][1], Zero) = One

\* C6 amended: ... for every email on which neither product of direct mode
\* underflows to 0 or overflows to infinity.
RankingEquivalenceInRange ==
    (op = "predict" /\ TrainedNoZero) =>
        \A i \in 1..Len(ret) : InRange(args.emails[i]) => ret[i] = OtherMode[i]

RankingWitness ==
    /\ op = "predict" /\ TrainedNoZero
    /\ args.prevent_underflow
    /\ Len(ret) = 1
    /\ HasWord(args.emails[1], self.words) /\ InRange(args.emails[1])
    /\ self.p_spam # Zero /\ self.p_ham # Zero
    /\ ret[1] = "spam"

\* C7: a train call that ends in an error leaves the instance as it was.
TrainAtomic ==
    [][(op' = "train" /\ status' = "ZeroDivisionError") => self' = self]_vars

\* C8 as stated: train ends in a division-by-zero error whenever the spam
\* count or the ham count of the batch is 0.
TrainZeroClassRaises ==
    (op = "train" /\ (NumLabel(args.labels, "spam") = 0 \/ NumLabel(args.labels, "ham") = 0))
        => status = "ZeroDivisionError"

AllFinite ==
    /\ IsFinite(self.p_spam) /\ IsFinite(self.p_ham)
    /\ \A d \in {self.p_word_given_spam, self.p_word_given_ham} :
          \A w \in DOMAIN d : IsFinite(d[w])

\* C8 amended: train ends in a division-by-zero error exactly when the batch
\* is empty, or when laplace_smoothing is false, the vocabulary is not empty
\* and the spam count or the ham count of the batch is 0; the model never
\* holds an infinite or NaN probability.
TrainRaisesExactly ==
    /\ AllFinite
    /\ op = "train" =>
          (status = "ZeroDivisionError" <=>
              \/ Len(args.emails) = 0
              \/ /\ ~args.laplace_smoothing
                 /\ self.words # {}
                 /\ NumLabel(args.labels, "spam") = 0 \/ NumLabel(args.labels, "ham") = 0)

\* an unsmoothed train call on a batch without ham emails has failed
TrainRaisesWitness ==
    /\ op = "train" /\ status = "ZeroDivisionError"
    /\ ~args.laplace_smoothing
    /\ Len(args.emails) = 2
    /\ NumLabel(args.labels, "spam") = 2

\* C9: in log mode on a model trained without smoothing, predict fails with
\* an error whenever an email holds a vocabulary word whose conditional
\* probability for one class is 0.
LogModeZeroRaises ==
    (/\ op = "predict" /\ args.prevent_underflow
     /\ fit = [status |-> "ok", laplace_smoothing |-> FALSE]
     /\ \E i \in 1..Len(args.emails) : \E j \in 1..Len(args.emails[i]) :
           LET w == args.emails[i][j][1]
           IN /\ w \in self.words
              /\ Get(self.p_word_given_spam, w, Zero) = Zero
                 \/ Get(self.p_word_given_ham, w, Zero) = Zero)
        => status # "ok"

\* C10: a predict call leaves every field of the instance unchanged.
PredictReadsOnly ==
    [][op' = "predict" => self' = self]_vars
====
